---------------------------- MODULE Spec2Model ----------------------------
(***************************************************************************)
(* A model of the word-scramble game session WordScrambleGame of          *)
(* src/cgpa_calculator.cpp.                                                *)
(*                                                                         *)
(* A C++ string is a sequence of one-character strings.  A double is an    *)
(* exact non-negative rational [n |-> numerator, d |-> denominator] in     *)
(* lowest terms.  Files hold text: a flat sequence of characters.          *)
(***************************************************************************)
EXTENDS Integers, Sequences, FiniteSets, TLC

(***************************************************************************)
(* Bounds of the model.                                                    *)
(***************************************************************************)
MaxFileOps == 2
MaxGuesses == 2
MaxGames == 2
MaxScore == 150
MaxScrambles == 1

(***************************************************************************)
(* Characters and strings.                                                 *)
(***************************************************************************)
Lower == <<"a","b","c","d","e","f","g","h","i","j","k","l","m",
           "n","o","p","q","r","s","t","u","v","w","x","y","z">>

Upper == <<"A","B","C","D","E","F","G","H","I","J","K","L","M",
           "N","O","P","Q","R","S","T","U","V","W","X","Y","Z">>

Digits == <<"0","1","2","3","4","5","6","7","8","9">>

IsUpper(ch) == \E i \in 1..26 : Upper[i] = ch

IsLower(ch) == \E i \in 1..26 : Lower[i] = ch

IsAlpha(ch) == IsUpper(ch) \/ IsLower(ch)

IsDigit(ch) == \E i \in 1..10 : Digits[i] = ch

DigitValue(ch) == (CHOOSE i \in 1..10 : Digits[i] = ch) - 1

\* the characters trim() strips: " \t\n\r"
IsSpace(ch) == ch \in {" ", "\t", "\n", "\r"}

tolower(ch) == IF IsUpper(ch) THEN Lower[CHOOSE i \in 1..26 : Upper[i] = ch] ELSE ch

toLowerCase(value) == [i \in 1..Len(value) |-> tolower(value[i])]

caseInsensitiveCompare(lhs, rhs) == toLowerCase(lhs) = toLowerCase(rhs)

trim(value) ==
    LET keep == {i \in 1..Len(value) : ~IsSpace(value[i])}
    IN  IF keep = {} THEN <<>>
        ELSE LET start == CHOOSE i \in keep : \A j \in keep : i <= j
                 end   == CHOOSE i \in keep : \A j \in keep : j <= i
             IN  SubSeq(value, start, end)

\* isValidWord with a lower length limit of one character
isValidWordShort(word) ==
    /\ Len(word) >= 1
    /\ Len(word) <= 20
    /\ \A i \in 1..Len(word) : IsAlpha(word[i])

isValidWord(word) ==
    /\ word # <<>>
    /\ Len(word) >= 2
    /\ Len(word) <= 20
    /\ \A i \in 1..Len(word) : IsAlpha(word[i])

\* the positions of character ch in s
Positions(s, ch) == {i \in 1..Len(s) : s[i] = ch}

\* getline(stream, token, delimiter) until the stream ends: the pieces between
\* delimiters; a piece after the last delimiter is produced only when it is
\* not empty, and an empty stream produces nothing
RECURSIVE SplitAt(_, _, _)
SplitAt(s, ch, from) ==
    LET cut == {i \in Positions(s, ch) : i >= from}
    IN  IF cut = {}
        THEN IF from > Len(s) THEN <<>> ELSE <<SubSeq(s, from, Len(s))>>
        ELSE LET p == CHOOSE i \in cut : \A j \in cut : i <= j
             IN  <<SubSeq(s, from, p - 1)>> \o SplitAt(s, ch, p + 1)

split(value, delimiter) == SplitAt(value, delimiter, 1)

Lines(text) == SplitAt(text, "\n", 1)

RECURSIVE Join(_, _)
Join(parts, sep) ==
    IF parts = <<>> THEN <<>>
    ELSE IF Len(parts) = 1 THEN parts[1]
    ELSE parts[1] \o <<sep>> \o Join(Tail(parts), sep)

\* every line followed by '\n', as operator<< writes them
RECURSIVE WriteLines(_)
WriteLines(lines) ==
    IF lines = <<>> THEN <<>>
    ELSE lines[1] \o <<"\n">> \o WriteLines(Tail(lines))

(***************************************************************************)
(* Numbers as text.                                                        *)
(***************************************************************************)
RECURSIVE IntToStr(_)
\* operator<<(int) of a non-negative value
IntToStr(n) ==
    IF n < 10 THEN <<Digits[n + 1]>>
    ELSE IntToStr(n \div 10) \o <<Digits[(n % 10) + 1]>>

RECURSIVE DigitsValue(_)
DigitsValue(ds) ==
    IF ds = <<>> THEN 0
    ELSE 10 * DigitsValue(SubSeq(ds, 1, Len(ds) - 1)) + DigitValue(ds[Len(ds)])

\* the longest run of digits of s that starts at position from
DigitRun(s, from) ==
    LET stop == {i \in from..Len(s) : ~IsDigit(s[i])}
        last == IF stop = {} THEN Len(s)
                ELSE (CHOOSE i \in stop : \A j \in stop : i <= j) - 1
    IN  SubSeq(s, from, last)

\* the position after leading whitespace (isspace) of s
SkipSpace(s) ==
    LET solid == {i \in 1..Len(s) : ~IsSpace(s[i])}
    IN  IF solid = {} THEN Len(s) + 1
        ELSE CHOOSE i \in solid : \A j \in solid : i <= j

\* std::stoi of a decimal that fits an int: leading whitespace and an
\* optional sign are skipped, the digits that follow are the value, what
\* follows them is ignored; no digit throws invalid_argument (ok = FALSE)
stoi(s) ==
    LET p0 == SkipSpace(s)
        signed == p0 <= Len(s) /\ s[p0] \in {"+", "-"}
        p  == IF signed THEN p0 + 1 ELSE p0
        ds == DigitRun(s, p)
    IN  IF ds = <<>> THEN [ok |-> FALSE, val |-> 0]
        ELSE [ok |-> TRUE,
              val |-> IF signed /\ s[p0] = "-" THEN 0 - DigitsValue(ds)
                      ELSE DigitsValue(ds)]

RECURSIVE Gcd(_, _)
Gcd(a, b) == IF b = 0 THEN a ELSE Gcd(b, a % b)

RECURSIVE Pow10(_)
Pow10(k) == IF k = 0 THEN 1 ELSE 10 * Pow10(k - 1)

\* the double n/d, in lowest terms
Rat(n, d) == LET g == Gcd(n, d) IN [n |-> n \div g, d |-> d \div g]

RatGreater(x, y) == x.n * y.d > y.n * x.d

\* std::stod of a non-negative decimal "digits[.digits]" after optional
\* whitespace and '+'; no digit at all throws (ok = FALSE)
stod(s) ==
    LET p0 == SkipSpace(s)
        p  == IF p0 <= Len(s) /\ s[p0] = "+" THEN p0 + 1 ELSE p0
        ip == DigitRun(s, p)
        q  == p + Len(ip)
        fp == IF q <= Len(s) /\ s[q] = "." THEN DigitRun(s, q + 1) ELSE <<>>
    IN  IF ip = <<>> /\ fp = <<>> THEN [ok |-> FALSE, val |-> Rat(0, 1)]
        ELSE [ok |-> TRUE,
              val |-> Rat(DigitsValue(ip) * Pow10(Len(fp)) + DigitsValue(fp),
                          Pow10(Len(fp)))]

\* the nearest integer to n/d, a half going to the even neighbour
RoundHalfEven(n, d) ==
    LET q == n \div d
        r == n % d
    IN  IF 2 * r < d THEN q
        ELSE IF 2 * r > d THEN q + 1
        ELSE IF q % 2 = 0 THEN q ELSE q + 1

\* the last k decimal digits of v, zero-padded
RECURSIVE LastDigits(_, _)
LastDigits(v, k) ==
    IF k = 0 THEN <<>>
    ELSE LastDigits(v \div 10, k - 1) \o <<Digits[(v % 10) + 1]>>

\* operator<< of the double x with fixed and setprecision(k)
Fixed(x, k) ==
    LET h == RoundHalfEven(Pow10(k) * x.n, x.d)
    IN  IntToStr(h \div Pow10(k)) \o <<".">> \o LastDigits(h % Pow10(k), k)

(***************************************************************************)
(* Program constants.                                                      *)
(***************************************************************************)
EASY == 1
MEDIUM == 2
HARD == 3

Difficulty == {EASY, MEDIUM, HARD}

\* sizeof(string) and sizeof(LeaderboardEntry) of an LP64 libstdc++ build
SizeofString == 32
SizeofLeaderboardEntry == 88

puzzle == <<"p","u","z","z","l","e">>
challenge == <<"c","h","a","l","l","e","n","g","e">>
example == <<"e","x","a","m","p","l","e">>
solution == <<"s","o","l","u","t","i","o","n">>

defaults == <<puzzle, challenge, example, solution>>

RankToken == <<"R","A","N","K">>

Header ==
    Join(<<RankToken, <<"N","A","M","E">>, <<"S","C","O","R","E">>,
           <<"G","A","M","E","S">>, <<"A","T","T","E","M","P","T","S">>,
           <<"A","V","G","_","T","I","M","E">>,
           <<"A","C","C","U","R","A","C","Y">>,
           <<"A","V","G","_","G","U","E","S","S","_","T","I","M","E">>,
           <<"D","I","F","F","I","C","U","L","T","Y">>>>, ",")

DefaultName == <<"P","l","a","y","e","r">>

(***************************************************************************)
(* The environment: the files the session is pointed at, and the inputs   *)
(* of its operations.                                                      *)
(***************************************************************************)
WordPaths == {"words.txt", "missing.txt"}
BoardPaths == {"board.csv", "import.csv", "nodir/board.csv"}
MetricsPaths == {"metrics.txt", "nodir/metrics.txt"}

\* a word list: a new word, a blank line, a padded duplicate of a default
\* word in another case, a line that is no word, the new word again
WordsTxt ==
    WriteLines(<<<<"c","d">>, <<" ">>, <<" ","P","u","z","z","l","e","\t">>,
                 <<"x","1">>, <<"C","D">>>>)

\* a leaderboard written elsewhere: no particular order, stale ranks, a row
\* of 8 fields, a row whose score is no number, a blank line, a difficulty
\* code that is none of 1, 2, 3
ImportCsv ==
    WriteLines(<<Header,
        Join(<<IntToStr(7), <<"B","o">>, IntToStr(100), IntToStr(1), IntToStr(4),
               <<"1",".","5">>, <<"5","0">>, <<"2",".","0","0">>,
               IntToStr(2)>>, ","),
        Join(<<IntToStr(2), <<"X">>, IntToStr(5), IntToStr(1), IntToStr(1),
               <<"1",".","0","0">>, <<"9",".","0","0">>, <<"1",".","0","0">>>>, ","),
        Join(<<IntToStr(1), <<"Y">>, <<"t","e","n">>, IntToStr(1), IntToStr(1),
               <<"1",".","0","0">>, <<"9",".","0","0">>, <<"1",".","0","0">>,
               IntToStr(1)>>, ","),
        <<" ">>,
        Join(<<IntToStr(7), <<"C","y">>, IntToStr(100), IntToStr(3), IntToStr(8),
               <<"2",".","2","5">>, <<"7","5",".","0","0">>, <<"1",".","0","0">>,
               IntToStr(9)>>, ",")>>)

WordFile(filename) ==
    IF filename = "words.txt" THEN [exists |-> TRUE, text |-> WordsTxt]
    ELSE [exists |-> FALSE, text |-> <<>>]

\* ofstream(filename) opens: the directory exists and the file may be written
Writable(filename) == filename \in {"board.csv", "metrics.txt"}

twenty == [i \in 1..20 |-> "q"]

WordInputs ==
    { <<"a","b">>, <<"A","B">>, <<" ","Z","z","\n">>, <<"P","U","Z","Z","L","E">>,
      <<"a">>, <<"a","1">>, <<"a"," ","b">>, <<>>, twenty, twenty \o <<"q">> }

GuessInputs ==
    { <<"P","U","Z","Z","L","E">>, puzzle, <<"E","x","a","m","p","l","e">>,
      <<"n","o">>, <<>> }

NameInputs ==
    { <<>>, <<"A","l">>, <<"a",",","b">>, <<"a","\n","b">>, <<"x","\n","7",",","Z">> }

ScrambleInputs == { <<>>, <<"a">>, <<"a","b","a">> }

LevelInputs == {0, 1, 2, 3}

LengthInputs == {0, 6}

RewardInputs == {0, 25}

RoundTimeInputs == { Rat(4, 3) }

\* milliseconds the steady clock counts between the two readings of a call
ElapsedInputs == {0, 1}

(***************************************************************************)
(* The session's state.                                                    *)
(***************************************************************************)
VARIABLES
    words, uniqueWords, leaderboard, customScores, currentWord, playerName,
    lastGuessCorrect, totalGuesses, correctGuesses, attempts, score,
    gamesPlayed, difficulty, metrics, revealedPositions, lastGuessStart,
    disk,           \* the leaderboard files: path -> [exists, text]
    metricsFile,    \* what metrics.txt holds
    lastOp,         \* the last call: its name, argument and result or output
    rewarded,       \* how many updateScore calls have increased the score
    guessReturned,  \* what the most recent checkGuess returned, "none" before any
    savedBoard      \* the leaderboard as it was when board.csv was written

vars ==
    <<words, uniqueWords, leaderboard, customScores, currentWord, playerName,
      lastGuessCorrect, totalGuesses, correctGuesses, attempts, score,
      gamesPlayed, difficulty, metrics, revealedPositions, lastGuessStart,
      disk, metricsFile, lastOp, rewarded, guessReturned, savedBoard>>

wordVars == <<words, uniqueWords>>

roundVars == <<currentWord, revealedPositions, lastGuessCorrect, lastGuessStart>>

guessVars == <<totalGuesses, correctGuesses, attempts, guessReturned>>

configVars == <<customScores, difficulty>>

fileVars == <<disk, metricsFile, savedBoard>>

RECURSIVE SumLen(_)
SumLen(strs) == IF strs = <<>> THEN 0 ELSE Len(strs[1]) + SumLen(Tail(strs))

Max(a, b) == IF a > b THEN a ELSE b

\* the metrics m after updateMemoryUsage() with these members
updateMemoryUsage(m, ws, uw, lb, name) ==
    LET total == Len(ws) * SizeofString + SumLen(ws)
                 + Cardinality(uw) * SizeofString
                 + Len(lb) * SizeofLeaderboardEntry
                 + SumLen([i \in 1..Len(lb) |-> lb[i].name])
                 + Len(name)
    IN  [m EXCEPT !.totalMemoryAllocated = total,
                  !.peakMemoryUsage = Max(m.peakMemoryUsage, total)]

initializeDefaultWords ==
    [words |-> defaults,
     uniqueWords |-> {toLowerCase(defaults[i]) : i \in 1..Len(defaults)}]

Init ==
    /\ words = initializeDefaultWords.words
    /\ uniqueWords = initializeDefaultWords.uniqueWords
    /\ leaderboard = <<>>
    /\ customScores = <<>>
    /\ currentWord = <<>>
    /\ playerName = <<>>
    /\ lastGuessCorrect = FALSE
    /\ totalGuesses = 0
    /\ correctGuesses = 0
    /\ attempts = 0
    /\ score = 0
    /\ gamesPlayed = 0
    /\ difficulty = EASY
    /\ metrics = updateMemoryUsage(
                    [totalGuessTime |-> 0, guessCount |-> 0, fileOperations |-> 0,
                     totalFileIOTime |-> 0, totalMemoryAllocated |-> 0,
                     peakMemoryUsage |-> 0, scrambleCount |-> 0],
                    initializeDefaultWords.words, initializeDefaultWords.uniqueWords,
                    <<>>, <<>>)
    /\ revealedPositions = {}
    /\ lastGuessStart = 0
    /\ disk = [f \in BoardPaths |->
                 IF f = "import.csv" THEN [exists |-> TRUE, text |-> ImportCsv]
                 ELSE [exists |-> FALSE, text |-> <<>>]]
    /\ metricsFile = [exists |-> FALSE]
    /\ lastOp = [op |-> "WordScrambleGame", arg |-> <<>>, ret |-> TRUE]
    /\ rewarded = 0
    /\ guessReturned = "none"
    /\ savedBoard = <<>>

(***************************************************************************)
(* Word management.                                                        *)
(***************************************************************************)
\* addWord on the bank st = [words, uniqueWords, metrics]: the bank after
\* the call and what the call returns
addWordTo(st, word) ==
    LET trimmed == trim(word)
        lowered == toLowerCase(trimmed)
    IN  IF ~isValidWord(trimmed) THEN [st EXCEPT !.ret = FALSE]
        ELSE IF lowered \in st.uniqueWords THEN [st EXCEPT !.ret = FALSE]
        ELSE LET ws == Append(st.words, trimmed)
                 uw == st.uniqueWords \cup {lowered}
             IN  [words |-> ws, uniqueWords |-> uw,
                  metrics |-> updateMemoryUsage(st.metrics, ws, uw, leaderboard, playerName),
                  ret |-> TRUE]

addWord(word) ==
    LET r == addWordTo([words |-> words, uniqueWords |-> uniqueWords,
                        metrics |-> metrics, ret |-> FALSE], word)
    IN  /\ words' = r.words
        /\ uniqueWords' = r.uniqueWords
        /\ metrics' = r.metrics
        /\ lastOp' = [op |-> "addWord", arg |-> word, ret |-> r.ret]
        /\ UNCHANGED <<leaderboard, playerName, score, gamesPlayed, rewarded,
                       roundVars, guessVars, configVars, fileVars>>

\* the while (getline(input, line)) loop of loadWordsFromFile
RECURSIVE addLines(_, _)
addLines(st, lines) ==
    IF lines = <<>> THEN st
    ELSE LET trimmed == trim(lines[1])
         IN  IF trimmed = <<>> THEN addLines(st, Tail(lines))
             ELSE addLines(addWordTo(st, trimmed), Tail(lines))

loadWordsFromFile(filename, elapsed) ==
    LET input == WordFile(filename)
    IN  IF ~input.exists
        THEN /\ lastOp' = [op |-> "loadWordsFromFile", arg |-> filename, ret |-> FALSE]
             /\ UNCHANGED <<wordVars, leaderboard, playerName, score, gamesPlayed,
                            metrics, rewarded, roundVars, guessVars, configVars, fileVars>>
        ELSE /\ metrics.fileOperations < MaxFileOps
             /\ LET r == addLines([words |-> words, uniqueWords |-> uniqueWords,
                                metrics |-> metrics, ret |-> FALSE],
                               Lines(input.text))
                    m == [r.metrics EXCEPT
                            !.fileOperations = @ + 1,
                            !.totalFileIOTime = @ + elapsed]
                IN  /\ words' = r.words
                    /\ uniqueWords' = r.uniqueWords
                    /\ metrics' = updateMemoryUsage(m, r.words, r.uniqueWords,
                                                    leaderboard, playerName)
             /\ lastOp' = [op |-> "loadWordsFromFile", arg |-> filename, ret |-> TRUE]
             /\ UNCHANGED <<leaderboard, playerName, score, gamesPlayed, rewarded,
                            roundVars, guessVars, configVars, fileVars>>

setDifficulty(level) ==
    /\ difficulty' = level
    /\ lastOp' = [op |-> "setDifficulty", arg |-> level, ret |-> TRUE]
    /\ UNCHANGED <<wordVars, leaderboard, customScores, playerName, score,
                   gamesPlayed, metrics, rewarded, roundVars, guessVars, fileVars>>

(***************************************************************************)
(* Round flow.                                                             *)
(***************************************************************************)
selectRandomWord ==
    IF words = <<>>
    THEN /\ lastOp' = [op |-> "selectRandomWord", arg |-> <<>>, ret |-> <<>>]
         /\ UNCHANGED <<wordVars, leaderboard, playerName, score, gamesPlayed,
                        metrics, rewarded, roundVars, guessVars, configVars, fileVars>>
    ELSE \E i \in 1..Len(words) :
         /\ currentWord' = words[i]
         /\ revealedPositions' = {}
         /\ lastGuessStart' = 1
         /\ lastOp' = [op |-> "selectRandomWord", arg |-> <<>>, ret |-> words[i]]
         /\ UNCHANGED <<wordVars, leaderboard, playerName, score, gamesPlayed,
                        metrics, rewarded, lastGuessCorrect, guessVars, configVars,
                        fileVars>>

\* the orders std::shuffle may leave the characters of word in
Shuffles(word) ==
    {[i \in 1..Len(word) |-> word[p[i]]] :
        p \in {q \in [1..Len(word) -> 1..Len(word)] :
                 \A i, j \in 1..Len(word) : i # j => q[i] # q[j]}}

scrambleWord(word) ==
    /\ metrics.scrambleCount < MaxScrambles
    /\ \E scrambled \in (IF Len(word) > 1 THEN Shuffles(word) ELSE {word}) :
         lastOp' = [op |-> "scrambleWord", arg |-> word, ret |-> scrambled]
    /\ metrics' = [metrics EXCEPT !.scrambleCount = @ + 1]
    /\ UNCHANGED <<wordVars, leaderboard, playerName, score, gamesPlayed, rewarded,
                   roundVars, guessVars, configVars, fileVars>>

\* elapsed: the milliseconds steady_clock counts since lastGuessStart
checkGuess(guess, elapsed) ==
    LET delta == IF lastGuessStart # 0
                 THEN (IF elapsed <= 0 THEN 1 ELSE elapsed)
                 ELSE 1
        correct == caseInsensitiveCompare(guess, currentWord)
    IN  /\ totalGuesses < MaxGuesses
        /\ metrics' = [metrics EXCEPT !.totalGuessTime = @ + delta,
                                      !.guessCount = @ + 1]
        /\ lastGuessStart' = 1
        /\ totalGuesses' = totalGuesses + 1
        /\ attempts' = attempts + 1
        /\ correctGuesses' = IF correct THEN correctGuesses + 1 ELSE correctGuesses
        /\ lastGuessCorrect' = correct
        /\ guessReturned' = IF correct THEN "true" ELSE "false"
        /\ lastOp' = [op |-> "checkGuess", arg |-> guess, ret |-> correct]
        /\ UNCHANGED <<wordVars, leaderboard, playerName, score, gamesPlayed,
                       rewarded, currentWord, revealedPositions, configVars, fileVars>>

\* getDifficultyMultiplier(), in halves
getDifficultyMultiplier2(level) ==
    CASE level = EASY -> 2
      [] level = MEDIUM -> 3
      [] level = HARD -> 4
      [] OTHER -> 2

\* std::round of halves2 / 2 for a non-negative value: a half goes away
\* from zero
roundHalves(halves2) == (halves2 + 1) \div 2

\* the reward with the fraction cut off instead of rounded
scoreRewardTruncated(word, custom, level) ==
    LET size == Len(word)
        baseScore == IF size \in DOMAIN custom THEN custom[size] ELSE size * 10
    IN  (baseScore * getDifficultyMultiplier2(level)) \div 2

\* what updateScore adds for target word: lines 176-182
scoreReward(word, custom, level) ==
    LET size == Len(word)
        baseScore == IF size \in DOMAIN custom THEN custom[size] ELSE size * 10
    IN  roundHalves(baseScore * getDifficultyMultiplier2(level))

\* updateScore's early return taken only when no word is selected
updateScoreReturnsNoWord == currentWord = <<>>

\* updateScore's early return: no current word, or the last guess was wrong
updateScoreReturns == currentWord = <<>> \/ ~lastGuessCorrect

updateScore ==
    IF updateScoreReturns
    THEN /\ lastOp' = [op |-> "updateScore", arg |-> <<>>, ret |-> TRUE]
         /\ UNCHANGED <<wordVars, leaderboard, playerName, score, gamesPlayed,
                        metrics, rewarded, roundVars, guessVars, configVars, fileVars>>
    ELSE LET reward == scoreReward(currentWord, customScores, difficulty)
         IN  /\ score + reward <= MaxScore
             /\ score' = score + reward
             /\ rewarded' = IF reward > 0 THEN rewarded + 1 ELSE rewarded
             /\ metrics' = updateMemoryUsage(metrics, words, uniqueWords,
                                             leaderboard, playerName)
             /\ lastOp' = [op |-> "updateScore", arg |-> <<>>, ret |-> TRUE]
             /\ UNCHANGED <<wordVars, leaderboard, playerName, gamesPlayed,
                            roundVars, guessVars, configVars, fileVars>>

resetAttempts ==
    /\ attempts' = 0
    /\ lastOp' = [op |-> "resetAttempts", arg |-> <<>>, ret |-> TRUE]
    /\ UNCHANGED <<wordVars, leaderboard, playerName, score, gamesPlayed, metrics,
                   rewarded, roundVars, totalGuesses, correctGuesses, guessReturned,
                   configVars, fileVars>>

setPlayerNameStale(name) ==
    /\ playerName' = name
    /\ lastOp' = [op |-> "setPlayerName", arg |-> name, ret |-> TRUE]
    /\ UNCHANGED <<wordVars, leaderboard, score, gamesPlayed, metrics, rewarded,
                   roundVars, guessVars, configVars, fileVars>>

setPlayerName(name) ==
    /\ playerName' = name
    /\ metrics' = updateMemoryUsage(metrics, words, uniqueWords, leaderboard, name)
    /\ lastOp' = [op |-> "setPlayerName", arg |-> name, ret |-> TRUE]
    /\ UNCHANGED <<wordVars, leaderboard, score, gamesPlayed, rewarded,
                   roundVars, guessVars, configVars, fileVars>>

customizeScoring(wordLength, reward) ==
    /\ customScores' =
          IF wordLength <= 0 \/ reward <= 0 THEN customScores
          ELSE [k \in DOMAIN customScores \cup {wordLength} |->
                   IF k = wordLength THEN reward ELSE customScores[k]]
    /\ lastOp' = [op |-> "customizeScoring", arg |-> <<wordLength, reward>>,
                  ret |-> TRUE]
    /\ UNCHANGED <<wordVars, leaderboard, playerName, score, gamesPlayed, metrics,
                   rewarded, roundVars, guessVars, difficulty, fileVars>>

(***************************************************************************)
(* Hints.                                                                  *)
(***************************************************************************)
\* nextUnrevealedPosition() for target word and revealed positions: 0-based
nextUnrevealedPosition(word, revealed) ==
    LET hidden == {i \in 0..(Len(word) - 1) : i \notin revealed}
    IN  IF hidden = {} THEN Len(word)
        ELSE CHOOSE i \in hidden : \A j \in hidden : i <= j

\* showHint whose level 2 reveals the first letter only
showHintResultFirstOnly(level, word, revealed) ==
    IF word = <<>> THEN [revealed |-> revealed, out |-> "No word selected."]
    ELSE IF Cardinality(revealed) >= Len(word)
    THEN [revealed |-> revealed, out |-> "No more hints available."]
    ELSE IF level = 1
    THEN [revealed |-> revealed \cup {0}, out |-> "Starts with: "]
    ELSE IF level = 2
    THEN [revealed |-> revealed \cup {0},
          out |-> "Starts with ... ends with "]
    ELSE LET position == nextUnrevealedPosition(word, revealed)
         IN  IF position >= Len(word)
             THEN [revealed |-> revealed, out |-> "No more hints available."]
             ELSE [revealed |-> revealed \cup {position},
                   out |-> "Letter at position "]

\* showHint(level) on target word: the revealed positions after the call and
\* the message it prints
showHintResult(level, word, revealed) ==
    IF word = <<>> THEN [revealed |-> revealed, out |-> "No word selected."]
    ELSE IF Cardinality(revealed) >= Len(word)
    THEN [revealed |-> revealed, out |-> "No more hints available."]
    ELSE IF level = 1
    THEN [revealed |-> revealed \cup {0}, out |-> "Starts with: "]
    ELSE IF level = 2
    THEN [revealed |-> revealed \cup {0, Len(word) - 1},
          out |-> "Starts with ... ends with "]
    ELSE LET position == nextUnrevealedPosition(word, revealed)
         IN  IF position >= Len(word)
             THEN [revealed |-> revealed, out |-> "No more hints available."]
             ELSE [revealed |-> revealed \cup {position},
                   out |-> "Letter at position "]

showHint(level) ==
    LET r == showHintResult(level, currentWord, revealedPositions)
    IN  /\ revealedPositions' = r.revealed
        /\ lastOp' = [op |-> "showHint", arg |-> level, ret |-> r.out]
        /\ UNCHANGED <<wordVars, leaderboard, playerName, score, gamesPlayed,
                       metrics, rewarded, currentWord, lastGuessCorrect,
                       lastGuessStart, guessVars, configVars, fileVars>>

(***************************************************************************)
(* Leaderboard.                                                            *)
(***************************************************************************)
\* the comparator of both sorts with the accuracy tie-break left out
comesBeforeScoreOnly(lhs, rhs) == lhs.score > rhs.score

\* the comparator of both sorts: lines 214-219 and 324-329
comesBefore(lhs, rhs) ==
    IF lhs.score = rhs.score THEN RatGreater(lhs.accuracy, rhs.accuracy)
    ELSE lhs.score > rhs.score

Orderings(n) ==
    {q \in [1..n -> 1..n] : \A i, j \in 1..n : i # j => q[i] # q[j]}

\* the orders std::sort, which is not stable, may leave entries in
sortOutcomes(entries) ==
    {t \in {[i \in 1..Len(entries) |-> entries[q[i]]] : q \in Orderings(Len(entries))} :
        \A i, j \in 1..Len(t) : i < j => ~comesBefore(t[j], t[i])}

\* leaderboard[i].rank = i + 1
assignRanks(entries) == [i \in 1..Len(entries) |-> [entries[i] EXCEPT !.rank = i]]

\* the entry updateLeaderboard builds: lines 204-212
newEntry(averageRoundTime) ==
    [rank |-> 0,
     name |-> IF playerName = <<>> THEN DefaultName ELSE playerName,
     score |-> score,
     games |-> gamesPlayed + 1,
     attempts |-> IF attempts > 0 THEN attempts ELSE totalGuesses,
     averageTime |-> averageRoundTime,
     accuracy |-> IF totalGuesses = 0 THEN Rat(0, 1)
                  ELSE Rat(correctGuesses * 100, totalGuesses),
     averageGuessTime |-> IF metrics.guessCount = 0 THEN Rat(0, 1)
                          ELSE Rat(metrics.totalGuessTime, metrics.guessCount),
     difficulty |-> difficulty]

updateLeaderboard(averageRoundTime) ==
    /\ gamesPlayed < MaxGames
    /\ gamesPlayed' = gamesPlayed + 1
    /\ \E sorted \in sortOutcomes(Append(leaderboard, newEntry(averageRoundTime))) :
         /\ leaderboard' = assignRanks(sorted)
         /\ metrics' = updateMemoryUsage(metrics, words, uniqueWords,
                                         assignRanks(sorted), playerName)
    /\ lastOp' = [op |-> "updateLeaderboard", arg |-> averageRoundTime, ret |-> TRUE]
    /\ UNCHANGED <<wordVars, playerName, score, rewarded, roundVars, guessVars,
                   configVars, fileVars>>

(***************************************************************************)
(* Files.                                                                  *)
(***************************************************************************)
accuracyNow ==
    IF totalGuesses = 0 THEN Rat(0, 1) ELSE Rat(correctGuesses * 100, totalGuesses)

\* the text saveMetricsToFile writes: lines 232-242
metricsText ==
    WriteLines(<<
        <<"P","l","a","y","e","r",":"," ">> \o (IF playerName = <<>> THEN DefaultName ELSE playerName),
        <<"S","c","o","r","e",":"," ">> \o IntToStr(score),
        <<"A","c","c","u","r","a","c","y",":"," ">> \o Fixed(accuracyNow, 1) \o <<"%">>,
        <<"G","u","e","s","s","e","s",":"," ">> \o IntToStr(totalGuesses),
        <<"C","o","r","r","e","c","t",":"," ">> \o IntToStr(correctGuesses),
        <<"T","o","t","a","l"," ","G","u","e","s","s"," ","T","i","m","e",":"," ">> \o Fixed(Rat(metrics.totalGuessTime, 1), 2) \o <<" ","m","s">>,
        <<"F","i","l","e"," ","I","/","O"," ","O","p","e","r","a","t","i","o","n","s",":"," ">> \o IntToStr(metrics.fileOperations),
        <<"T","o","t","a","l"," ","F","i","l","e"," ","I","/","O"," ","T","i","m","e",":"," ">> \o Fixed(Rat(metrics.totalFileIOTime, 1), 2) \o <<" ","m","s">>,
        <<"S","c","r","a","m","b","l","e","s",":"," ">> \o IntToStr(metrics.scrambleCount),
        <<"T","o","t","a","l"," ","M","e","m","o","r","y",":"," ">> \o IntToStr(metrics.totalMemoryAllocated) \o <<" ","b","y","t","e","s">>,
        <<"P","e","a","k"," ","M","e","m","o","r","y",":"," ">> \o IntToStr(metrics.peakMemoryUsage) \o <<" ","b","y","t","e","s">> >>)

saveMetricsToFile(filename, elapsed) ==
    IF ~Writable(filename)
    THEN /\ lastOp' = [op |-> "saveMetricsToFile", arg |-> filename, ret |-> FALSE]
         /\ UNCHANGED <<wordVars, leaderboard, playerName, score, gamesPlayed,
                        metrics, rewarded, roundVars, guessVars, configVars, fileVars>>
    ELSE /\ metrics.fileOperations < MaxFileOps
         /\ metricsFile' = [exists |-> TRUE, text |-> metricsText]
         /\ metrics' = [metrics EXCEPT !.fileOperations = @ + 1,
                                       !.totalFileIOTime = @ + elapsed]
         /\ lastOp' = [op |-> "saveMetricsToFile", arg |-> filename, ret |-> TRUE]
         /\ UNCHANGED <<wordVars, leaderboard, playerName, score, gamesPlayed,
                        rewarded, roundVars, guessVars, configVars, disk, savedBoard>>

\* one data row of saveLeaderboardToFile: lines 258-266
entryRow(entry) ==
    Join(<<IntToStr(entry.rank), entry.name, IntToStr(entry.score),
           IntToStr(entry.games), IntToStr(entry.attempts),
           Fixed(entry.averageTime, 2), Fixed(entry.accuracy, 2),
           Fixed(entry.averageGuessTime, 2), IntToStr(entry.difficulty)>>, ",")

boardText(entries) ==
    WriteLines(<<Header>> \o [i \in 1..Len(entries) |-> entryRow(entries[i])])

saveLeaderboardToFile(filename, elapsed) ==
    IF ~Writable(filename)
    THEN /\ lastOp' = [op |-> "saveLeaderboardToFile", arg |-> filename, ret |-> FALSE]
         /\ UNCHANGED <<wordVars, leaderboard, playerName, score, gamesPlayed,
                        metrics, rewarded, roundVars, guessVars, configVars, fileVars>>
    ELSE /\ metrics.fileOperations < MaxFileOps
         /\ disk' = [disk EXCEPT ![filename] =
                        [exists |-> TRUE, text |-> boardText(leaderboard)]]
         /\ savedBoard' = leaderboard
         /\ metrics' = [metrics EXCEPT !.fileOperations = @ + 1,
                                       !.totalFileIOTime = @ + elapsed]
         /\ lastOp' = [op |-> "saveLeaderboardToFile", arg |-> filename, ret |-> TRUE]
         /\ UNCHANGED <<wordVars, leaderboard, playerName, score, gamesPlayed,
                        rewarded, roundVars, guessVars, configVars, metricsFile>>

\* line.find(token) != string::npos
Contains(line, token) ==
    \E i \in 1..(Len(line) - Len(token) + 1) :
        SubSeq(line, i, i + Len(token) - 1) = token

\* the difficulty of code diff: lines 309-317
difficultyOf(diff) ==
    IF diff = 1 THEN EASY
    ELSE IF diff = 2 THEN MEDIUM
    ELSE IF diff = 3 THEN HARD
    ELSE EASY

\* one line of the file, past the header test: the entries it adds to loaded
\* (none when the line is blank, has not 9 fields, or a number does not parse)
parseRow(line) ==
    IF trim(line) = <<>> THEN <<>>
    ELSE LET parts == split(line, ",")
         IN  IF Len(parts) # 9 THEN <<>>
             ELSE IF \/ \E k \in {1, 3, 4, 5, 9} : ~stoi(parts[k]).ok
                     \/ \E k \in {6, 7, 8} : ~stod(parts[k]).ok
             THEN <<>>
             ELSE << [rank |-> stoi(parts[1]).val,
                      name |-> parts[2],
                      score |-> stoi(parts[3]).val,
                      games |-> stoi(parts[4]).val,
                      attempts |-> stoi(parts[5]).val,
                      averageTime |-> stod(parts[6]).val,
                      accuracy |-> stod(parts[7]).val,
                      averageGuessTime |-> stod(parts[8]).val,
                      difficulty |-> difficultyOf(stoi(parts[9]).val)] >>

RECURSIVE parseRows(_)
parseRows(lines) ==
    IF lines = <<>> THEN <<>>
    ELSE parseRow(lines[1]) \o parseRows(Tail(lines))

\* the vector loaded of loadLeaderboardFromFile: lines 281-322
loadedEntries(text) ==
    LET lines == Lines(text)
    IN  IF lines # <<>> /\ Contains(lines[1], RankToken) THEN parseRows(Tail(lines))
        ELSE parseRows(lines)

\* loadLeaderboardFromFile that empties the leaderboard before it finds out
\* whether the file opens
loadLeaderboardFromFileClears(filename, elapsed) ==
    IF ~disk[filename].exists
    THEN /\ leaderboard' = <<>>
         /\ lastOp' = [op |-> "loadLeaderboardFromFile", arg |-> filename, ret |-> FALSE]
         /\ UNCHANGED <<wordVars, playerName, score, gamesPlayed,
                        metrics, rewarded, roundVars, guessVars, configVars, fileVars>>
    ELSE /\ metrics.fileOperations < MaxFileOps
         /\ \E sorted \in sortOutcomes(loadedEntries(disk[filename].text)) :
              /\ leaderboard' = assignRanks(sorted)
              /\ metrics' = updateMemoryUsage(
                               [metrics EXCEPT !.fileOperations = @ + 1,
                                               !.totalFileIOTime = @ + elapsed],
                               words, uniqueWords, assignRanks(sorted), playerName)
         /\ lastOp' = [op |-> "loadLeaderboardFromFile", arg |-> filename, ret |-> TRUE]
         /\ UNCHANGED <<wordVars, playerName, score, gamesPlayed, rewarded,
                        roundVars, guessVars, configVars, fileVars>>

loadLeaderboardFromFile(filename, elapsed) ==
    IF ~disk[filename].exists
    THEN /\ lastOp' = [op |-> "loadLeaderboardFromFile", arg |-> filename, ret |-> FALSE]
         /\ UNCHANGED <<wordVars, leaderboard, playerName, score, gamesPlayed,
                        metrics, rewarded, roundVars, guessVars, configVars, fileVars>>
    ELSE /\ metrics.fileOperations < MaxFileOps
         /\ \E sorted \in sortOutcomes(loadedEntries(disk[filename].text)) :
              /\ leaderboard' = assignRanks(sorted)
              /\ metrics' = updateMemoryUsage(
                               [metrics EXCEPT !.fileOperations = @ + 1,
                                               !.totalFileIOTime = @ + elapsed],
                               words, uniqueWords, assignRanks(sorted), playerName)
         /\ lastOp' = [op |-> "loadLeaderboardFromFile", arg |-> filename, ret |-> TRUE]
         /\ UNCHANGED <<wordVars, playerName, score, gamesPlayed, rewarded,
                        roundVars, guessVars, configVars, fileVars>>

(***************************************************************************)
(* Specifications.  Spec is the whole session.  The others drive the       *)
(* session through a part of its interface, with the inputs that part      *)
(* needs; every operation left out of one leaves the state that part is    *)
(* about unchanged.                                                        *)
(***************************************************************************)
Next ==
    \/ \E word \in WordInputs : addWord(word)
    \/ \E filename \in WordPaths, elapsed \in ElapsedInputs :
          loadWordsFromFile(filename, elapsed)
    \/ \E level \in Difficulty : setDifficulty(level)
    \/ selectRandomWord
    \/ \E word \in ScrambleInputs : scrambleWord(word)
    \/ \E guess \in GuessInputs, elapsed \in ElapsedInputs : checkGuess(guess, elapsed)
    \/ updateScore
    \/ resetAttempts
    \/ \E name \in NameInputs : setPlayerName(name)
    \/ \E averageRoundTime \in RoundTimeInputs : updateLeaderboard(averageRoundTime)
    \/ \E filename \in MetricsPaths, elapsed \in ElapsedInputs :
          saveMetricsToFile(filename, elapsed)
    \/ \E filename \in BoardPaths, elapsed \in ElapsedInputs :
          saveLeaderboardToFile(filename, elapsed)
    \/ \E filename \in BoardPaths, elapsed \in ElapsedInputs :
          loadLeaderboardFromFile(filename, elapsed)
    \/ \E level \in LevelInputs : showHint(level)
    \/ \E wordLength \in LengthInputs, reward \in RewardInputs :
          customizeScoring(wordLength, reward)

Spec == Init /\ [][Next]_vars

NextWords ==
    \/ \E word \in WordInputs : addWord(word)
    \/ \E filename \in WordPaths, elapsed \in ElapsedInputs :
          loadWordsFromFile(filename, elapsed)

SpecWords == Init /\ [][NextWords]_vars

NextRound ==
    \/ \E level \in Difficulty : setDifficulty(level)
    \/ selectRandomWord
    \/ \E guess \in GuessInputs, elapsed \in ElapsedInputs : checkGuess(guess, elapsed)
    \/ updateScore
    \/ resetAttempts
    \/ \E wordLength \in LengthInputs, reward \in RewardInputs :
          customizeScoring(wordLength, reward)

SpecRound == Init /\ [][NextRound]_vars

NextDisplay ==
    \/ selectRandomWord
    \/ \E word \in ScrambleInputs : scrambleWord(word)
    \/ \E level \in LevelInputs : showHint(level)

SpecDisplay == Init /\ [][NextDisplay]_vars

NextBoard ==
    \/ \E guess \in {<<>>, <<"n","o">>} : checkGuess(guess, 1)
    \/ \E wordLength \in {0}, reward \in RewardInputs : customizeScoring(wordLength, reward)
    \/ updateScore
    \/ \E averageRoundTime \in RoundTimeInputs : updateLeaderboard(averageRoundTime)
    \/ \E filename \in {"import.csv"} : loadLeaderboardFromFile(filename, 1)

SpecBoard == Init /\ [][NextBoard]_vars

NextRoundTrip ==
    \/ \E name \in NameInputs : setPlayerName(name)
    \/ \E averageRoundTime \in RoundTimeInputs : updateLeaderboard(averageRoundTime)
    \/ \E filename \in {"board.csv"} : saveLeaderboardToFile(filename, 1)
    \/ \E filename \in {"import.csv", "board.csv"} : loadLeaderboardFromFile(filename, 1)

SpecRoundTrip == Init /\ [][NextRoundTrip]_vars

NextFiles ==
    \/ \E averageRoundTime \in RoundTimeInputs : updateLeaderboard(averageRoundTime)
    \/ \E filename \in WordPaths, elapsed \in ElapsedInputs :
          loadWordsFromFile(filename, elapsed)
    \/ \E filename \in MetricsPaths, elapsed \in ElapsedInputs :
          saveMetricsToFile(filename, elapsed)
    \/ \E filename \in BoardPaths, elapsed \in ElapsedInputs :
          saveLeaderboardToFile(filename, elapsed)
    \/ \E filename \in BoardPaths, elapsed \in ElapsedInputs :
          loadLeaderboardFromFile(filename, elapsed)

SpecFiles == Init /\ [][NextFiles]_vars

NextMemory ==
    \/ \E word \in {<<"a","b">>} : addWord(word)
    \/ \E filename \in {"words.txt"} : loadWordsFromFile(filename, 1)
    \/ \E name \in {<<>>, <<"A","l">>} : setPlayerName(name)
    \/ \E averageRoundTime \in RoundTimeInputs : updateLeaderboard(averageRoundTime)
    \/ \E filename \in {"board.csv"} : saveLeaderboardToFile(filename, 1)
    \/ \E filename \in {"import.csv", "board.csv"} : loadLeaderboardFromFile(filename, 1)

SpecMemory == Init /\ [][NextMemory]_vars

(***************************************************************************)
(* Properties.                                                             *)
(***************************************************************************)
LetterIndex(ch) ==
    IF IsUpper(ch) THEN CHOOSE i \in 1..26 : Upper[i] = ch
    ELSE IF IsLower(ch) THEN CHOOSE i \in 1..26 : Lower[i] = ch
    ELSE 0

\* a and b are the same text when the case of letters is ignored
EqualIgnoringCase(a, b) ==
    /\ Len(a) = Len(b)
    /\ \A i \in 1..Len(a) :
          \/ a[i] = b[i]
          \/ LetterIndex(a[i]) # 0 /\ LetterIndex(a[i]) = LetterIndex(b[i])

\* round(reward x multiplier) for the session's table and difficulty
ExpectedReward(target) ==
    LET reward == IF Len(target) \in DOMAIN customScores
                  THEN customScores[Len(target)] ELSE 10 * Len(target)
    IN  CASE difficulty = EASY -> reward
          [] difficulty = MEDIUM -> (3 * reward + 1) \div 2
          [] difficulty = HARD -> 2 * reward

\* C1: with a target selected, an updateScore that immediately follows a
\* checkGuess whose guess equals the target ignoring case raises the score
\* by exactly round(reward x multiplier), which is more than nothing; for
\* target "puzzle", Easy and no custom entry that is 60.
C1_RewardAfterCorrectGuess ==
    [][ ( /\ lastOp.op = "checkGuess"
          /\ currentWord # <<>>
          /\ EqualIgnoringCase(lastOp.arg, currentWord)
          /\ lastOp'.op = "updateScore" )
        => /\ score' = score + ExpectedReward(currentWord)
           /\ score' > score
           /\ ( currentWord = puzzle /\ difficulty = EASY /\ 6 \notin DOMAIN customScores
                => score' = score + 60 ) ]_vars

\* a correct upper-case guess of "puzzle" was rewarded 38 = round(25 x 1.5)
C1_Witness ==
    /\ lastOp.op = "updateScore"
    /\ currentWord = puzzle
    /\ difficulty = MEDIUM
    /\ 6 \in DOMAIN customScores
    /\ score = 38
    /\ rewarded = 1

WellFormedWord(w) == Len(w) >= 2 /\ Len(w) <= 20 /\ \A i \in 1..Len(w) : IsAlpha(w[i])

BankInvariant ==
    /\ \A i \in 1..Len(words) : WellFormedWord(words[i])
    /\ \A i, j \in 1..Len(words) : i # j => ~EqualIgnoringCase(words[i], words[j])
    /\ uniqueWords = {toLowerCase(words[i]) : i \in 1..Len(words)}

\* C2: the bank holds only words of 2 to 20 letters, no two of them equal
\* ignoring case, and uniqueWords is the lower-casing of the bank; addWord
\* returns true exactly when the trimmed word is well formed and not in the
\* bank ignoring case, then appends it, and otherwise leaves the bank as it was.
C2_WordBank ==
    /\ BankInvariant
    /\ [][ /\ BankInvariant'
           /\ lastOp'.op = "addWord" =>
                LET t == trim(lastOp'.arg)
                    accepted == /\ WellFormedWord(t)
                                /\ \A i \in 1..Len(words) : ~EqualIgnoringCase(words[i], t)
                IN  /\ lastOp'.ret = accepted
                    /\ accepted => words' = Append(words, t)
                    /\ ~accepted => words' = words /\ uniqueWords' = uniqueWords ]_vars

\* "AB" was refused because "ab" is in the bank, after "Zz" went in trimmed
C2_Witness ==
    /\ lastOp.op = "addWord"
    /\ lastOp.arg = <<"A","B">>
    /\ lastOp.ret = FALSE
    /\ \E i, j \in 1..Len(words) : words[i] = <<"a","b">> /\ words[j] = <<"Z","z">>

AccuracyAtLeast(x, y) == x.accuracy.n * y.accuracy.d >= y.accuracy.n * x.accuracy.d

\* C3: the leaderboard is in descending order of score, equal scores in
\* descending order of accuracy, and the ranks are 1..N in that order; after
\* import.csv is loaded, whose two good rows both score 100, the row of
\* accuracy 75 has rank 1 and the row of accuracy 50 rank 2.
C3_LeaderboardOrder ==
    /\ \A i \in 1..Len(leaderboard) : leaderboard[i].rank = i
    /\ \A i, j \in 1..Len(leaderboard) :
          i < j => \/ leaderboard[i].score > leaderboard[j].score
                   \/ /\ leaderboard[i].score = leaderboard[j].score
                      /\ AccuracyAtLeast(leaderboard[i], leaderboard[j])
    /\ ( /\ lastOp.op = "loadLeaderboardFromFile"
         /\ lastOp.arg = "import.csv"
         /\ lastOp.ret )
       => /\ Len(leaderboard) = 2
          /\ leaderboard[1].name = <<"C","y">> /\ leaderboard[1].accuracy = Rat(75, 1)
          /\ leaderboard[2].name = <<"B","o">> /\ leaderboard[2].accuracy = Rat(50, 1)

\* an entry was inserted between loaded entries, and two entries of one score
\* differ in accuracy
C3_Witness ==
    /\ lastOp.op = "updateLeaderboard"
    /\ Len(leaderboard) = 4
    /\ \E i \in 1..3 :
          /\ leaderboard[i].score = leaderboard[i + 1].score
          /\ leaderboard[i].accuracy # leaderboard[i + 1].accuracy
    /\ \E i \in 1..3 : leaderboard[i].score > leaderboard[i + 1].score
    /\ leaderboard[4].games = 1

\* C4: the score never decreases, only updateScore changes it, and
\* updateScore leaves it alone when no word is selected or the most recent
\* checkGuess returned false or there has been no checkGuess.
C4_ScoreMonotone ==
    [][ /\ score' >= score
        /\ score' # score => lastOp'.op = "updateScore"
        /\ ( lastOp'.op = "updateScore"
             /\ (currentWord = <<>> \/ guessReturned \in {"none", "false"}) )
           => score' = score ]_vars

\* updateScore was called after a wrong guess at a selected word, with a
\* reward from an earlier round on the score
C4_Witness ==
    /\ lastOp.op = "updateScore"
    /\ currentWord # <<>>
    /\ guessReturned = "false"
    /\ score > 0

\* C5: right after selectRandomWord returns a word, the target is a word of
\* the bank, no position is revealed and the last guess's outcome is cleared.
C5_SelectResetsRound ==
    ( lastOp.op = "selectRandomWord" /\ lastOp.ret # <<>> )
    => /\ \E i \in 1..Len(words) : words[i] = currentWord
       /\ currentWord = lastOp.ret
       /\ revealedPositions = {}
       /\ lastGuessCorrect = FALSE

ValidIndices == 0..(Len(currentWord) - 1)

\* what a showHint step does to the revealed positions while one is hidden
HintReveals ==
    LET level == lastOp'.arg
        hidden == ValidIndices \ revealedPositions
        lowest == CHOOSE i \in hidden : \A j \in hidden : i <= j
    IN  /\ level = 1 => revealedPositions' = revealedPositions \cup {0}
        /\ level = 2 =>
              revealedPositions' = revealedPositions \cup {0, Len(currentWord) - 1}
        /\ level \notin {1, 2} => revealedPositions' = revealedPositions \cup {lowest}
        /\ lastOp'.ret \notin {"No more hints available.", "No word selected."}

Tuple(e) == <<e.score, e.name, e.games, e.attempts, e.difficulty>>

\* how many entries of board have tuple t
Count(board, t) == Cardinality({i \in 1..Len(board) : Tuple(board[i]) = t})

Tuples(board) == {Tuple(board[i]) : i \in 1..Len(board)}

PlainName(e) == \A i \in 1..Len(e.name) : e.name[i] \notin {",", "\n"}

\* C7: after board.csv is saved and then loaded, the leaderboard holds the
\* tuples (score, name, games, attempts, difficulty) of the saved one, as
\* often, except those of rows that did not parse: it holds no tuple that
\* was not saved, none more often than it was saved, and every saved entry
\* whose name has no comma and no line break; what was in memory before the
\* load is gone.
C7_RoundTrip ==
    ( /\ lastOp.op = "loadLeaderboardFromFile"
      /\ lastOp.arg = "board.csv"
      /\ lastOp.ret )
    => /\ \A t \in Tuples(leaderboard) : Count(leaderboard, t) <= Count(savedBoard, t)
       /\ \A i \in 1..Len(savedBoard) :
             PlainName(savedBoard[i]) =>
                Count(leaderboard, Tuple(savedBoard[i]))
                   = Count(savedBoard, Tuple(savedBoard[i]))

FileOps ==
    {"loadWordsFromFile", "loadLeaderboardFromFile", "saveLeaderboardToFile",
     "saveMetricsToFile"}

\* the session but for the record of the last call
sessionVars ==
    <<words, uniqueWords, leaderboard, customScores, currentWord, playerName,
      lastGuessCorrect, totalGuesses, correctGuesses, attempts, score,
      gamesPlayed, difficulty, metrics, revealedPositions, lastGuessStart,
      disk, metricsFile>>

\* filename cannot be opened by the file operation op
CannotOpen(op, filename) ==
    CASE op = "loadWordsFromFile" -> ~WordFile(filename).exists
      [] op = "loadLeaderboardFromFile" -> ~disk[filename].exists
      [] OTHER -> ~Writable(filename)

\* C8: a file operation returns false exactly when its path cannot be
\* opened, and then nothing of the session or of the files changes; the
\* file-operation count changes only in a file operation that returns true,
\* and every such operation adds exactly one to it.
C8_FailedOpen ==
    [][ /\ lastOp'.op \in FileOps =>
              /\ lastOp'.ret = ~CannotOpen(lastOp'.op, lastOp'.arg)
              /\ ~lastOp'.ret => UNCHANGED sessionVars
              /\ lastOp'.ret => metrics'.fileOperations = metrics.fileOperations + 1
        /\ metrics'.fileOperations # metrics.fileOperations =>
              lastOp'.op \in FileOps /\ lastOp'.ret ]_vars

\* a load of a leaderboard file that is not there failed, in a session that
\* has a leaderboard, an added word and a file operation behind it
C8_Witness ==
    /\ lastOp.op = "loadLeaderboardFromFile"
    /\ lastOp.ret = FALSE
    /\ leaderboard # <<>>
    /\ Len(words) = 5
    /\ metrics.fileOperations = 1
    /\ metrics.totalFileIOTime = 1

\* the estimate: per word the string object and its characters, per unique
\* word a string object, per leaderboard entry the entry and its name's
\* characters, and the player's name
MemoryEstimate ==
    SumLen(words) + (Len(words) + Cardinality(uniqueWords)) * SizeofString
    + SumLen([i \in 1..Len(leaderboard) |-> leaderboard[i].name])
    + Len(leaderboard) * SizeofLeaderboardEntry
    + Len(playerName)

MemoryInvariant ==
    /\ metrics.totalMemoryAllocated = MemoryEstimate
    /\ metrics.peakMemoryUsage >= metrics.totalMemoryAllocated

\* C9: the total memory is always the estimate for the current word bank,
\* leaderboard and player name, the peak is never below the total, and the
\* peak never decreases.
C9_Memory ==
    /\ MemoryInvariant
    /\ [][ MemoryInvariant' /\ metrics'.peakMemoryUsage >= metrics.peakMemoryUsage ]_vars

\* a load left fewer entries than there were: the total is below the peak
C9_Witness ==
    /\ lastOp.op = "loadLeaderboardFromFile"
    /\ lastOp.ret
    /\ leaderboard = <<>>
    /\ playerName # <<>>
    /\ metrics.peakMemoryUsage > metrics.totalMemoryAllocated
    /\ Len(words) > 4

\* C10: the updateScore calls that have raised the score are no more than
\* the checkGuess calls that have returned true.
C10_RewardedAtMostOnce == rewarded <= correctGuesses

=============================================================================
